---------------------------- MODULE Spec2Model ----------------------------
(***************************************************************************)
(* A model of packages/app-builder-lib/src/electron/ElectronFramework.ts:  *)
(* the resolution of the Electron version (createElectronFrameworkSupport),*)
(* the acquisition of the runtime into the stage directory (unpack,        *)
(* cleanupAfterUnpack) and the pre-extra-files hook (beforeCopyExtraFiles).*)
(*                                                                         *)
(* Every `await` of the source is a suspension point: the code between two *)
(* awaits is one action.  File names are sequences of parts (or of         *)
(* characters, for the entries the locale pruning inspects), so that       *)
(* endsWith/substring are computed, not assumed.                           *)
(***************************************************************************)
EXTENDS Integers, Sequences, FiniteSets, TLC

\* null / undefined of the source (`x == null` is true of both)
Null == "null"

----------------------------------------------------------------------------
(* Bounds of the model *)

\* number of createElectronFrameworkSupport calls on the one configuration
NumCalls == 3
\* number of prepareApplicationStageDirectory calls in one run
MaxPrepare == 1
\* number of prepareApplicationStageDirectory calls of the targets that share
\* one configuration
MaxTargets == 2
\* number of beforeCopyExtraFiles calls after one preparation
MaxHook == 2
\* the concurrency ceiling handed to BluebirdPromise.map (CONCURRENCY of
\* builder-util/out/fs, whose value is not part of this file)
CONCURRENCY == 2

Calls == 1..NumCalls
Versions == {"1.0.0", "2.0.0"}

----------------------------------------------------------------------------
(* Strings that the code takes apart, as sequences of characters *)

langFileExt == <<".", "l", "p", "r", "o", "j">>

en == <<"e", "n">>
fr == <<"f", "r">>
de == <<"d", "e">>
en_lproj == en \o langFileExt
fr_lproj == fr \o langFileExt
de_lproj == de \o langFileExt
readme_txt == <<"r", "e", "a", "d", "m", "e", ".", "t", "x", "t">>
\* ends in "lproj" but not in ".lproj"
enlproj == <<"e", "n", "l", "p", "r", "o", "j">>

\* String.prototype.endsWith
EndsWith(s, suffix) ==
    /\ Len(s) >= Len(suffix)
    /\ SubSeq(s, Len(s) - Len(suffix) + 1, Len(s)) = suffix

\* String.prototype.substring(from, to), 0-based, `to` exclusive
Substring(s, from, to) == SubSeq(s, from + 1, to)

\* Array.prototype.includes
Includes(arr, x) == \E i \in 1..Len(arr) : arr[i] = x

\* A value of type string | string[] | null, tagged with its type
Undefined == [type |-> "undefined", value |-> <<>>]
StringValue(str) == [type |-> "string", value |-> str]
ArrayValue(arr) == [type |-> "array", value |-> arr]

\* asArray of builder-util: null/undefined -> [], a string -> [string],
\* an array -> itself
asArray(v) ==
    IF v.type = "undefined" THEN <<>>
    ELSE IF v.type = "string" THEN <<v.value>>
    ELSE v.value

\* An optional object of optional fields is the function from the keys it
\* has to their values; an absent object and {} read alike (`?.`, spread)
EmptyObject == [k \in {} |-> Null]
Get(obj, key) == IF key \in DOMAIN obj THEN obj[key] ELSE Null

----------------------------------------------------------------------------
(* Branding *)

\* A file name is <<base, extension>>, so that `${name}.exe` is built, not
\* assumed; a path is the sequence of its segments
Name(base) == <<base, "">>
WithExt(base, ext) == <<base, ext>>

\* a JavaScript value is falsy for `||` when it is null/undefined or ""
Falsy(v) == v = Null \/ v = ""

\* the defaults taken as a pair, as soon as one field is missing
createBrandingOptsPaired(opts) ==
    IF Falsy(Get(opts.electronBranding, "projectName")) \/ Falsy(Get(opts.electronBranding, "productName"))
    THEN [projectName |-> "electron", productName |-> "Electron"]
    ELSE [projectName |-> opts.electronBranding.projectName,
          productName |-> opts.electronBranding.productName]
\* lines 30-35
createBrandingOpts(opts) ==
    [projectName |-> IF Falsy(Get(opts.electronBranding, "projectName"))
                     THEN "electron" ELSE opts.electronBranding.projectName,
     productName |-> IF Falsy(Get(opts.electronBranding, "productName"))
                     THEN "Electron" ELSE opts.electronBranding.productName]

\* `${branding.productName}.app`
AppName(productName) == <<productName, ".app">>

\* new ElectronFramework(name, version, distMacOsAppName)
ElectronFramework(name, version, distMacOsAppName) ==
    [name |-> name, version |-> version, distMacOsAppName |-> distMacOsAppName]

\* no framework (yet)
NoFramework == ElectronFramework(Null, Null, <<>>)


----------------------------------------------------------------------------
(* State *)

VARIABLES
    configuration,      \* the shared Configuration object
    isPrepackedAppAsar, \* packager.isPrepackedAppAsar
    \* createElectronFrameworkSupport, one entry per call
    cpc,                \* "idle", "installed", "manifest" (suspended at the await), "done", "error"
    cframework,         \* the Framework the call returned, or NoFramework
    lookups,            \* the lookups the call invoked: "installed", "manifest"
    wrote,              \* the call assigned configuration.electronVersion (line 161)
    afterSuccess,       \* the call started after some call had returned a framework
    seen,               \* configuration.electronVersion as the call read it at line 150
    yielded,            \* what the lookup the call awaited resolved to
    \* prepareApplicationStageDirectory / unpack / cleanupAfterUnpack
    self,               \* the ElectronFramework the preparation runs on (`this`)
    packager,           \* the packager of the target
    prepareOptions,     \* PrepareApplicationStageDirectoryOptions of the call
    upc,                \* position of the preparation call
    options,            \* the ElectronDownloadOptions object of the call
    dist,               \* local `dist` of unpack
    isFullCleanup,      \* local `isFullCleanup` of unpack
    distFiles,          \* the files of the resolved electronDist directory
    files,              \* the files of appOutDir
    pending,            \* cleanup operations started and not yet settled
    log,                \* the external operations the preparation call has invoked, in order
    prepares,           \* preparation calls started so far
    \* beforeCopyExtraFiles
    hpc,                \* position of the hook call
    hooks,              \* hook calls started since the last preparation
    wantedLanguages,    \* local `wantedLanguages`
    resources,          \* the entries the distribution ships in the bundle's resources
                        \* directory, less those the hook has removed
    queue,              \* entries BluebirdPromise.map has not handed to the callback yet
    inFlight,           \* entries whose fs.rm is in progress
    hlog                \* what the hook call did: renames, scan, removals

versionVars == <<configuration, isPrepackedAppAsar, cpc, cframework, lookups, wrote, afterSuccess, seen, yielded>>
unpackVars == <<self, packager, prepareOptions, upc, options, dist, isFullCleanup, distFiles, pending, log, prepares>>
hookVars == <<hpc, hooks, wantedLanguages, resources, queue, inFlight, hlog>>
vars == <<versionVars, unpackVars, hookVars, files>>

----------------------------------------------------------------------------
(* Configurations *)

Brandings ==
    {EmptyObject,
     [projectName |-> "brand"],
     [projectName |-> "", productName |-> "Brand"]}

\* electronDownload: absent, or an object with some of the option keys
ElectronDownloads ==
    {EmptyObject, [cache |-> <<Name("userCache")>>], [version |-> "9.9.9"]}

\* electronDist: absent, a path, or a function of the prepare options
ElectronDists == {"undefined", "path", "function"}

Configurations ==
    [electronVersion : Versions \cup {Null},
     electronBranding : Brandings,
     electronDownload : ElectronDownloads,
     electronDist : ElectronDists,
     downloadAlternateFFmpeg : BOOLEAN]

----------------------------------------------------------------------------
(* createElectronFrameworkSupport, lines 149-166 *)

\* line 151: version == null
VersionIsUnsetAlways(version) == TRUE
VersionIsUnset(version) == version = Null

\* line 155: version == null after getElectronVersionFromInstalled
NoInstalledVersionNever(version) == FALSE
NoInstalledVersion(version) == version = Null

\* line 161: configuration.electronVersion = version
MemoizeNothing(cfg, version) == cfg
Memoize(cfg, version) == [cfg EXCEPT !.electronVersion = version]

\* lines 164-165
NewFramework(cfg, version) ==
    ElectronFramework(createBrandingOpts(cfg).projectName, version,
                      AppName(createBrandingOpts(cfg).productName))

InFlight(c) == cpc[c] \in {"installed", "manifest"}

\* lines 150-159, up to the first await (or to the return when the version is set)
CreateStart(c) ==
    /\ cpc[c] = "idle"
    /\ afterSuccess' = [afterSuccess EXCEPT ![c] = \E d \in Calls : cpc[d] = "done"]
    /\ seen' = [seen EXCEPT ![c] = configuration.electronVersion]
    /\ IF ~VersionIsUnset(configuration.electronVersion)
       THEN /\ cpc' = [cpc EXCEPT ![c] = "done"]
            /\ cframework' = [cframework EXCEPT ![c] = NewFramework(configuration, configuration.electronVersion)]
            /\ UNCHANGED lookups
       ELSE IF isPrepackedAppAsar
       THEN /\ cpc' = [cpc EXCEPT ![c] = "installed"]
            /\ lookups' = [lookups EXCEPT ![c] = @ \cup {"installed"}]
            /\ UNCHANGED cframework
       ELSE /\ cpc' = [cpc EXCEPT ![c] = "manifest"]
            /\ lookups' = [lookups EXCEPT ![c] = @ \cup {"manifest"}]
            /\ UNCHANGED cframework
    /\ UNCHANGED <<configuration, isPrepackedAppAsar, wrote, yielded>>

\* the rest of the call once the version is known: lines 161-165
Finish(c, version) ==
    /\ configuration' = Memoize(configuration, version)
    /\ wrote' = [wrote EXCEPT ![c] = TRUE]
    /\ cframework' = [cframework EXCEPT ![c] = NewFramework(configuration', version)]
    /\ cpc' = [cpc EXCEPT ![c] = "done"]

\* line 154 resumes with the installed version, or with null: lines 155-157
InstalledResolved(c, version) ==
    /\ cpc[c] = "installed"
    /\ IF NoInstalledVersion(version)
       THEN /\ cpc' = [cpc EXCEPT ![c] = "error"]
            /\ UNCHANGED <<configuration, wrote, cframework>>
       ELSE Finish(c, version)
    /\ yielded' = [yielded EXCEPT ![c] = version]
    /\ UNCHANGED <<isPrepackedAppAsar, lookups, afterSuccess, seen>>

\* line 159 resumes with the computed version
ManifestResolved(c, version) ==
    /\ cpc[c] = "manifest"
    /\ Finish(c, version)
    /\ yielded' = [yielded EXCEPT ![c] = version]
    /\ UNCHANGED <<isPrepackedAppAsar, lookups, afterSuccess, seen>>

\* the awaited lookup rejects: the call rejects with it
LookupRejected(c) ==
    /\ InFlight(c)
    /\ cpc' = [cpc EXCEPT ![c] = "error"]
    /\ yielded' = [yielded EXCEPT ![c] = "rejected"]
    /\ UNCHANGED <<configuration, isPrepackedAppAsar, cframework, lookups, wrote, afterSuccess, seen>>

\* a call made while no other call is in progress
CreateStartSequential(c) ==
    /\ \A d \in Calls : ~InFlight(d)
    /\ CreateStart(c)


----------------------------------------------------------------------------
(* Files and paths *)

\* no path: null/undefined where a path is expected
NoPath == <<>>
projectDir == <<Name("/"), Name("project")>>
\* the one relative path electronDist is configured with, or returns
DistPath == <<Name("electron-dist")>>

LICENSE == <<Name("LICENSE")>>
LICENSE_electron_txt == <<WithExt("LICENSE.electron", ".txt")>>
VersionMarker == <<Name("version")>>
FFmpeg == <<Name("ffmpeg")>>

Platforms == {"linux", "windows", "mac"}
PlatformNames(platform) ==
    CASE platform = "linux" -> {"linux"}
      [] platform = "windows" -> {"win32"}
      [] OTHER -> {"darwin"}

\* names the packager gives the product's executable
ProductFilenames == {"MyApp", "electron"}

NoPrepareOptions == [platformName |-> Null, arch |-> Null, electronDistResult |-> NoPath]

\* isSafeToUnpackElectronOnRemoteBuildServer of ../platformPackager: a
\* property of the packager and its environment
isSafeToUnpackElectronOnRemoteBuildServer(p) == p.remoteUnpack

\* line 205
IsMac(p) == p.platform = "mac"

\* line 206
ResourcesPath(p, distMacOsAppName) ==
    IF IsMac(p) THEN <<distMacOsAppName, Name("Contents"), Name("Resources")>>
    ELSE <<Name("resources")>>

DefaultApp(p, distMacOsAppName) ==
    ResourcesPath(p, distMacOsAppName) \o <<WithExt("default_app", ".asar")>>

\* the branded executable (or bundle) of a runtime distribution
BrandedExecutable(p, projectName, distMacOsAppName) ==
    CASE p.platform = "linux" -> <<Name(projectName)>>
      [] p.platform = "windows" -> <<WithExt(projectName, ".exe")>>
      [] OTHER -> <<distMacOsAppName>>

\* A runtime distribution as it is shipped: executable, LICENSE and markers
FullDistribution(p, projectName, distMacOsAppName) ==
    {BrandedExecutable(p, projectName, distMacOsAppName), LICENSE,
     VersionMarker, DefaultApp(p, distMacOsAppName)}

\* what a local distribution directory may hold
LocalDistributions(p, projectName, distMacOsAppName) ==
    {FullDistribution(p, projectName, distMacOsAppName),
     FullDistribution(p, projectName, distMacOsAppName) \ {LICENSE},
     FullDistribution(p, projectName, distMacOsAppName) \ {VersionMarker}}

\* what the external unpack worker may leave in appOutDir
WorkerOutputs(p, projectName, distMacOsAppName) ==
    {FullDistribution(p, projectName, distMacOsAppName),
     FullDistribution(p, projectName, distMacOsAppName)
        \ {VersionMarker, DefaultApp(p, distMacOsAppName)}}

\* fs-extra rename: fails when the source does not exist
RenameOk(fs, from) == from \in fs
Rename(fs, from, to) == (fs \ {from}) \cup {to}

\* unlinkIfExists: absence is not an error
Unlink(fs, file) == fs \ {file}

----------------------------------------------------------------------------
(* createDownloadOpts, lines 64-71 *)

\* { ...a, ...b }
Spread(a, b) ==
    [k \in DOMAIN a \cup DOMAIN b |-> IF k \in DOMAIN b THEN b[k] ELSE a[k]]

createDownloadOpts(opts, platform, arch, electronVersion) ==
    Spread([platform |-> platform, arch |-> arch, version |-> electronVersion],
           opts.electronDownload)

\* line 174
ZipFile(version, platformName, arch) ==
    <<"electron-v", version, "-", platformName, "-", arch, ".zip">>

\* line 175: path.isAbsolute(dist) ? dist : path.resolve(packager.projectDir, dist)
IsAbsolute(path) == Len(path) > 0 /\ path[1] = Name("/")
ResolvedDist(path) == IF IsAbsolute(path) THEN path ELSE projectDir \o path


----------------------------------------------------------------------------
(* prepareApplicationStageDirectory, unpack and cleanupAfterUnpack,        *)
(* lines 136-142 and 168-217                                               *)

\* An entry of the log: an operation was invoked, has succeeded, has failed
Start(op) == <<op, "start">>
Ok(op) == <<op, "ok">>
Fail(op) == <<op, "fail">>
Logged(e) == \E i \in 1..Len(log) : log[i] = e
Index(e) == CHOOSE i \in 1..Len(log) : log[i] = e

\* what the hook calls since the last preparation did: the outcome of the
\* rename of each call, and for the call in progress whether the resources
\* directory was scanned, the entries readdir answered, the entries whose
\* removal was started, has succeeded, has failed
NoHookLog == [renames |-> <<>>, scanned |-> FALSE, entries |-> {}, removing |-> {}, removed |-> {}, failed |-> {}]

\* line 172
ResolveElectronDist(cfg, po) ==
    CASE cfg.electronDist = "function" -> po.electronDistResult
      [] cfg.electronDist = "path" -> DistPath
      [] OTHER -> NoPath

\* line 176: (await statOrNull(path.join(resolvedDist, zipFile))) != null
ZipFoundNever(dir, zipFile) == FALSE
ZipFound(dir, zipFile) == zipFile \in dir

\* line 184: dist == null selects the delegated branch, else the local copy
IsDelegated(d) == d = NoPath

SkipsAcquisitionNever(p) == FALSE
\* line 186: return without acquiring
SkipsAcquisition(p) == isSafeToUnpackElectronOnRemoteBuildServer(p)

\* lines 209-210: the marker removals cleanupAfterUnpack starts
MarkerRemovalsAlways(full) == {"unlinkDefaultApp", "unlinkVersion"}
MarkerRemovals(full) == IF full THEN {"unlinkDefaultApp", "unlinkVersion"} ELSE {}

\* lines 211-215: the LICENSE rename cleanupAfterUnpack starts
LicenseRenameIfFull(p, full) == IF full /\ ~IsMac(p) THEN {"renameLicense"} ELSE {}
LicenseRename(p, full) == IF IsMac(p) THEN {} ELSE {"renameLicense"}

\* the operations of Promise.all([...]) in array order
CleanupOrder == <<"unlinkDefaultApp", "unlinkVersion", "renameLicense">>
SelectOps(ops) ==
    [i \in 1..Len(SelectSeq(CleanupOrder, LAMBDA o : o \in ops)) |->
        Start(SelectSeq(CleanupOrder, LAMBDA o : o \in ops)[i])]

\* lines 138-141, after unpack has returned
AfterUnpack(lg) ==
    IF configuration.downloadAlternateFFmpeg
    THEN /\ upc' = "ffmpeg"
         /\ log' = lg \o <<Start("ffmpeg")>>
    ELSE /\ upc' = "done"
         /\ log' = lg

\* lines 183-198 up to the next await, entered with the final `dist`
Acquire(d, lg) ==
    IF IsDelegated(d)
    THEN /\ isFullCleanup' = FALSE
         /\ IF SkipsAcquisition(packager)
            THEN AfterUnpack(lg \o <<Start("skip")>>)
            ELSE /\ upc' = "worker"
                 /\ log' = lg \o <<Start("worker")>>
    ELSE /\ isFullCleanup' = TRUE
         /\ upc' = "emptyDir"
         /\ log' = lg \o <<Start("emptyDir")>>

\* line 137 and lines 169-176 up to the first await
PrepareStart(c, po) ==
    /\ upc \in {"idle", "done", "error"}
    /\ hpc \in {"idle", "done", "error"}
    /\ pending = {} /\ inFlight = {}
    /\ cpc[c] = "done"
    /\ prepares' = prepares + 1
    /\ hooks' = 0
    /\ hlog' = NoHookLog
    /\ self' = cframework[c]
    /\ prepareOptions' = po
    /\ options' = createDownloadOpts(configuration, po.platformName, po.arch, cframework[c].version)
    /\ dist' = ResolveElectronDist(configuration, po)
    /\ IF dist' # NoPath
       THEN /\ \E dir \in {{}, {ZipFile(cframework[c].version, po.platformName, po.arch)},
                           {ZipFile("9.9.9", po.platformName, po.arch)}} : distFiles' = dir
            /\ upc' = "stat"
            /\ log' = <<Start("stat")>>
            /\ isFullCleanup' = FALSE
       ELSE /\ distFiles' = {}
            /\ Acquire(dist', <<>>)
    /\ UNCHANGED <<versionVars, packager, files, pending, hpc, wantedLanguages, resources, queue, inFlight>>

\* the download options being the configuration's own electronDownload
\* object: the cache is assigned on the shared object
StatResolvedShared ==
    /\ upc = "stat"
    /\ IF ZipFound(distFiles, ZipFile(options.version, prepareOptions.platformName, options.arch))
       THEN /\ options' = Spread(options, [cache |-> ResolvedDist(dist)])
            /\ configuration' = [configuration EXCEPT !.electronDownload = Spread(@, [cache |-> ResolvedDist(dist)])]
            /\ dist' = NoPath
       ELSE UNCHANGED <<options, dist, configuration>>
    /\ Acquire(dist', log)
    /\ UNCHANGED <<isPrepackedAppAsar, cpc, cframework, lookups, wrote, afterSuccess, seen, yielded>>
    /\ UNCHANGED <<self, packager, prepareOptions, distFiles, files, pending, prepares, hookVars>>

\* lines 176-198: statOrNull has answered
StatResolved ==
    /\ upc = "stat"
    /\ IF ZipFound(distFiles, ZipFile(options.version, prepareOptions.platformName, options.arch))
       THEN /\ options' = Spread(options, [cache |-> ResolvedDist(dist)])
            /\ dist' = NoPath
       ELSE UNCHANGED <<options, dist>>
    /\ Acquire(dist', log)
    /\ UNCHANGED <<versionVars, self, packager, prepareOptions, distFiles, files, pending, prepares, hookVars>>

\* unpack returning without cleanupAfterUnpack
CleanupSkipped(lg) ==
    /\ pending' = {}
    /\ AfterUnpack(lg)
\* lines 200 and 203-216: cleanupAfterUnpack starts its operations
Cleanup(lg) ==
    /\ upc' = "cleanup"
    /\ pending' = MarkerRemovals(isFullCleanup) \cup LicenseRename(packager, isFullCleanup)
    /\ log' = lg \o <<Start("cleanup")>> \o SelectOps(pending')

\* line 188: the external unpack worker has populated appOutDir
WorkerDone ==
    /\ upc = "worker"
    /\ \E out \in WorkerOutputs(packager, self.name, self.distMacOsAppName) : files' = out
    /\ Cleanup(log \o <<Ok("worker")>>)
    /\ UNCHANGED <<versionVars, self, packager, prepareOptions, options, dist, isFullCleanup, distFiles, prepares, hookVars>>

\* copyDir started and not awaited: the cleanup starts along with it
EmptyDirDoneCopyNotAwaited ==
    /\ upc = "emptyDir"
    /\ files' = {}
    /\ Cleanup(log \o <<Ok("emptyDir"), Start("copyDir")>>)
    /\ UNCHANGED <<versionVars, self, packager, prepareOptions, options, dist, isFullCleanup, distFiles, prepares, hookVars>>
\* line 194: emptyDir(appOutDir) is done, copyDir starts
EmptyDirDone ==
    /\ upc = "emptyDir"
    /\ files' = {}
    /\ upc' = "copyDir"
    /\ log' = log \o <<Ok("emptyDir"), Start("copyDir")>>
    /\ UNCHANGED <<versionVars, self, packager, prepareOptions, options, dist, isFullCleanup, distFiles, pending, prepares, hookVars>>

\* lines 195-197: copyDir is done
CopyDirDone ==
    /\ upc = "copyDir"
    /\ \E src \in LocalDistributions(packager, self.name, self.distMacOsAppName) : files' = files \cup src
    /\ Cleanup(log \o <<Ok("copyDir")>>)
    /\ UNCHANGED <<versionVars, self, packager, prepareOptions, options, dist, isFullCleanup, distFiles, prepares, hookVars>>

\* a failed step invoked again
AcquisitionRetried ==
    /\ upc \in {"worker", "emptyDir", "copyDir"}
    /\ log' = log \o <<Fail(upc), Start(upc)>>
    /\ UNCHANGED <<versionVars, self, packager, prepareOptions, upc, options, dist, isFullCleanup, distFiles, files, pending, prepares, hookVars>>
\* the awaited worker, emptyDir or copyDir rejects: unpack rejects with it
AcquisitionFailed ==
    /\ upc \in {"worker", "emptyDir", "copyDir"}
    /\ log' = Append(log, Fail(upc))
    /\ upc' = "error"
    /\ UNCHANGED <<versionVars, self, packager, prepareOptions, options, dist, isFullCleanup, distFiles, files, pending, prepares, hookVars>>

MarkerOf(op) ==
    IF op = "unlinkDefaultApp" THEN DefaultApp(packager, self.distMacOsAppName) ELSE VersionMarker

\* lines 209-210: an unlinkIfExists settles
UnlinkDone(op) ==
    /\ op \in pending \cap {"unlinkDefaultApp", "unlinkVersion"}
    /\ files' = Unlink(files, MarkerOf(op))
    /\ pending' = pending \ {op}
    /\ log' = Append(log, Ok(op))
    /\ UNCHANGED <<versionVars, self, packager, prepareOptions, upc, options, dist, isFullCleanup, distFiles, prepares, hookVars>>

\* an unlinkIfExists rejects (any error but the file's absence): Promise.all
\* rejects at once, the sibling operations go on
UnlinkFailed(op) ==
    /\ op \in pending \cap {"unlinkDefaultApp", "unlinkVersion"}
    /\ pending' = pending \ {op}
    /\ log' = Append(log, Fail(op))
    /\ upc' = IF upc = "cleanup" THEN "error" ELSE upc
    /\ UNCHANGED <<versionVars, self, packager, prepareOptions, options, dist, isFullCleanup, distFiles, files, prepares, hookVars>>

\* the rename without its catch: a rejection rejects Promise.all
LicenseRenameUncaught ==
    /\ "renameLicense" \in pending
    /\ pending' = pending \ {"renameLicense"}
    /\ IF RenameOk(files, LICENSE)
       THEN /\ files' = Rename(files, LICENSE, LICENSE_electron_txt)
            /\ log' = Append(log, Ok("renameLicense"))
            /\ upc' = upc
       ELSE /\ files' = files
            /\ log' = Append(log, Fail("renameLicense"))
            /\ upc' = IF upc = "cleanup" THEN "error" ELSE upc
    /\ UNCHANGED <<versionVars, self, packager, prepareOptions, options, dist, isFullCleanup, distFiles, prepares, hookVars>>
\* lines 213-215: the rename settles; a rejection is caught and ignored
LicenseRenameDone ==
    /\ "renameLicense" \in pending
    /\ pending' = pending \ {"renameLicense"}
    /\ IF RenameOk(files, LICENSE)
       THEN /\ files' = Rename(files, LICENSE, LICENSE_electron_txt)
            /\ log' = Append(log, Ok("renameLicense"))
       ELSE /\ files' = files
            /\ log' = Append(log, Fail("renameLicense"))
    /\ UNCHANGED <<versionVars, self, packager, prepareOptions, upc, options, dist, isFullCleanup, distFiles, prepares, hookVars>>

\* Promise.all resolves once every operation has: unpack returns
CleanupDone ==
    /\ upc = "cleanup"
    /\ pending = {}
    /\ AfterUnpack(log)
    /\ UNCHANGED <<versionVars, self, packager, prepareOptions, options, dist, isFullCleanup, distFiles, files, pending, prepares, hookVars>>

\* line 140: replaceFFMPEG calls back
FFmpegDone ==
    /\ upc = "ffmpeg"
    /\ files' = files \cup {FFmpeg}
    /\ log' = Append(log, Ok("ffmpeg"))
    /\ upc' = "done"
    /\ UNCHANGED <<versionVars, self, packager, prepareOptions, options, dist, isFullCleanup, distFiles, pending, prepares, hookVars>>


----------------------------------------------------------------------------
(* beforeCopyExtraFiles, lines 73-113 *)

\* what the resources directory of the bundle may hold
ResourceEntries == {en_lproj, fr_lproj, de_lproj, readme_txt, enlproj}

\* packager.platformSpecificBuildOptions.electronLanguages
ElectronLanguages ==
    {Undefined, ArrayValue(<<>>), StringValue(en), ArrayValue(<<en, fr>>), ArrayValue(<<en_lproj>>)}

\* lines 81 and 85: a rejected rename is not caught, the hook rejects
HookRenameIgnored == "done"
HookRenameRejected == "error"

\* line 78: the Linux rename is skipped when unpacking is left to the build server
LinuxRenames(p) == ~isSafeToUnpackElectronOnRemoteBuildServer(p)

\* lines 80-81 and 84-85: source and target of the rename
RenameSource(p, branding) ==
    IF p.platform = "linux" THEN <<Name(branding.projectName)>>
    ELSE <<WithExt(branding.projectName, ".exe")>>
RenameTarget(p) ==
    IF p.platform = "linux" THEN <<Name(p.executableName)>>
    ELSE <<WithExt(p.productFilename, ".exe")>>

\* line 90: wantedLanguages.length === 0
KeepsAllLocalesNever(wanted) == FALSE
KeepsAllLocales(wanted) == Len(wanted) = 0

\* lines 100-108: the callback removes the entry
RemovesAnyLproj(file, wanted) == EndsWith(file, langFileExt)
Removes(file, wanted) ==
    /\ EndsWith(file, langFileExt)
    /\ ~Includes(wanted, Substring(file, 0, Len(file) - Len(langFileExt)))

\* lines 74-87 up to the first await
HookStart ==
    /\ upc = "done"
    /\ hpc \in {"idle", "done", "error"}
    /\ inFlight = {}
    /\ hooks < MaxHook
    /\ hooks' = hooks + 1
    /\ hlog' = [NoHookLog EXCEPT !.renames = hlog.renames]
    /\ queue' = {}
    /\ wantedLanguages' = <<>>
    /\ hpc' = CASE packager.platform = "linux" ->
                      IF LinuxRenames(packager) THEN "rename" ELSE "done"
                [] packager.platform = "windows" -> "rename"
                [] OTHER -> "createMacApp"
    /\ UNCHANGED <<versionVars, unpackVars, files, resources, inFlight>>

\* lines 81 and 85: the awaited rename settles; a rejection is not caught
RenameSettled ==
    /\ hpc = "rename"
    /\ IF RenameOk(files, RenameSource(packager, createBrandingOpts(configuration)))
       THEN /\ files' = Rename(files, RenameSource(packager, createBrandingOpts(configuration)),
                               RenameTarget(packager))
            /\ hlog' = [hlog EXCEPT !.renames = Append(@, "ok")]
            /\ hpc' = "done"
       ELSE /\ files' = files
            /\ hlog' = [hlog EXCEPT !.renames = Append(@, "failed")]
            /\ hpc' = HookRenameRejected
    /\ UNCHANGED <<versionVars, unpackVars, hooks, wantedLanguages, resources, queue, inFlight>>

\* lines 87-98: createMacApp has built the bundle; the allow-list is read
\* and, unless it is empty, the resources directory is scanned
MacAppCreated ==
    /\ hpc = "createMacApp"
    /\ wantedLanguages' = asArray(packager.electronLanguages)
    /\ IF KeepsAllLocales(wantedLanguages')
       THEN /\ hpc' = "done"
            /\ hlog' = hlog
       ELSE /\ hpc' = "readdir"
            /\ hlog' = [hlog EXCEPT !.scanned = TRUE]
    /\ UNCHANGED <<versionVars, unpackVars, files, hooks, resources, queue, inFlight>>

\* createMacApp or readdir rejects: the hook rejects with it
HookFailed ==
    /\ hpc \in {"createMacApp", "readdir"}
    /\ hpc' = "error"
    /\ UNCHANGED <<versionVars, unpackVars, files, hooks, wantedLanguages, resources, queue, inFlight, hlog>>

\* line 98: readdir answers with the entries of the directory
ReaddirResolved ==
    /\ hpc = "readdir"
    /\ queue' = resources
    /\ hlog' = [hlog EXCEPT !.entries = resources]
    /\ hpc' = "map"
    /\ UNCHANGED <<versionVars, unpackVars, files, hooks, wantedLanguages, resources, inFlight>>

\* lines 99-109: BluebirdPromise.map hands one entry to the callback, while
\* fewer than CONCURRENCY removals are in progress
MapCallback(file) ==
    /\ hpc = "map"
    /\ file \in queue
    /\ Cardinality(inFlight) < CONCURRENCY
    /\ queue' = queue \ {file}
    /\ IF Removes(file, wantedLanguages)
       THEN /\ inFlight' = inFlight \cup {file}
            /\ hlog' = [hlog EXCEPT !.removing = @ \cup {file}]
       ELSE UNCHANGED <<inFlight, hlog>>
    /\ UNCHANGED <<versionVars, unpackVars, files, hpc, hooks, wantedLanguages, resources>>

\* line 106: fs.rm(..., {recursive, force}) has removed the entry
RmDone(file) ==
    /\ file \in inFlight
    /\ inFlight' = inFlight \ {file}
    /\ resources' = resources \ {file}
    /\ hlog' = [hlog EXCEPT !.removed = @ \cup {file}]
    /\ UNCHANGED <<versionVars, unpackVars, files, hpc, hooks, wantedLanguages, queue>>

\* line 106: fs.rm rejects: the map rejects, and hands out no further entry
RmFailed(file) ==
    /\ file \in inFlight
    /\ inFlight' = inFlight \ {file}
    /\ hlog' = [hlog EXCEPT !.failed = @ \cup {file}]
    /\ hpc' = IF hpc = "map" THEN "error" ELSE hpc
    /\ UNCHANGED <<versionVars, unpackVars, files, hooks, wantedLanguages, resources, queue>>

\* every entry has been handled: the map resolves and the hook returns
MapResolved ==
    /\ hpc = "map"
    /\ queue = {} /\ inFlight = {}
    /\ hpc' = "done"
    /\ UNCHANGED <<versionVars, unpackVars, files, hooks, wantedLanguages, resources, queue, inFlight, hlog>>


----------------------------------------------------------------------------
(* Specifications *)

\* a packager: its platform, what isSafeToUnpackElectronOnRemoteBuildServer
\* answers for it, the name of the product's executable, and
\* platformSpecificBuildOptions.electronLanguages
Packager(platform, remoteUnpack, name, languages) ==
    [platform |-> platform, remoteUnpack |-> remoteUnpack, productFilename |-> name,
     executableName |-> name, electronLanguages |-> languages]

Packagers ==
    {Packager(pf, r, n, Undefined) : pf \in {"linux", "windows"}, r \in BOOLEAN, n \in ProductFilenames}
    \cup {Packager("mac", r, "MyApp", l) : r \in BOOLEAN, l \in {Undefined, ArrayValue(<<en, fr>>)}}

MacPackagers == {Packager("mac", FALSE, "MyApp", l) : l \in ElectronLanguages}

\* the prepare options a packager may pass; electronDist, when a function,
\* answers with a path or with nothing
PrepareOptionsOf(p) ==
    {[platformName |-> pn, arch |-> "x64", electronDistResult |-> d] :
        pn \in PlatformNames(p.platform),
        d \in IF configuration.electronDist = "function" THEN {NoPath, DistPath} ELSE {NoPath}}

\* nothing is being prepared, no hook has run
StageIdle ==
    /\ self = NoFramework
    /\ prepareOptions = NoPrepareOptions
    /\ upc = "idle"
    /\ options = EmptyObject
    /\ dist = NoPath
    /\ isFullCleanup = FALSE
    /\ distFiles = {}
    /\ files = {}
    /\ pending = {}
    /\ log = <<>>
    /\ prepares = 0
    /\ hpc = "idle"
    /\ hooks = 0
    /\ wantedLanguages = <<>>
    /\ queue = {}
    /\ inFlight = {}
    /\ hlog = NoHookLog

\* no call of createElectronFrameworkSupport has been made
InitVersion ==
    /\ configuration \in {cfg \in Configurations :
            /\ cfg.electronDownload = EmptyObject
            /\ cfg.electronDist = "undefined"
            /\ ~cfg.downloadAlternateFFmpeg}
    /\ isPrepackedAppAsar \in BOOLEAN
    /\ cpc = [c \in Calls |-> "idle"]
    /\ cframework = [c \in Calls |-> NoFramework]
    /\ lookups = [c \in Calls |-> {}]
    /\ wrote = [c \in Calls |-> FALSE]
    /\ afterSuccess = [c \in Calls |-> FALSE]
    /\ seen = [c \in Calls |-> "unread"]
    /\ yielded = [c \in Calls |-> "none"]
    /\ packager = Packager("linux", FALSE, "MyApp", Undefined)
    /\ resources = {}
    /\ StageIdle

VersionStep(c) ==
    \/ \E version \in Versions \cup {Null} : InstalledResolved(c, version)
    \/ \E version \in Versions : ManifestResolved(c, version)
    \/ LookupRejected(c)

\* the calls of createElectronFrameworkSupport may overlap
NextVersion ==
    \E c \in Calls :
        \/ CreateStart(c) /\ UNCHANGED <<unpackVars, hookVars, files>>
        \/ VersionStep(c) /\ UNCHANGED <<unpackVars, hookVars, files>>

SpecVersion == InitVersion /\ [][NextVersion]_vars

\* each call is made after the one before has settled
NextVersionSequential ==
    \E c \in Calls :
        \/ CreateStartSequential(c) /\ UNCHANGED <<unpackVars, hookVars, files>>
        \/ VersionStep(c) /\ UNCHANGED <<unpackVars, hookVars, files>>

SpecVersionSequential == InitVersion /\ [][NextVersionSequential]_vars

\* the framework has been created by the first call, on a configuration
\* that carried its version; the stage directory is empty
InitStage ==
    /\ configuration \in {cfg \in Configurations : cfg.electronVersion = "1.0.0"}
    /\ isPrepackedAppAsar = FALSE
    /\ cpc = [c \in Calls |-> IF c = 1 THEN "done" ELSE "idle"]
    /\ cframework = [c \in Calls |-> IF c = 1 THEN NewFramework(configuration, configuration.electronVersion)
                                     ELSE NoFramework]
    /\ lookups = [c \in Calls |-> {}]
    /\ wrote = [c \in Calls |-> FALSE]
    /\ afterSuccess = [c \in Calls |-> FALSE]
    /\ seen = [c \in Calls |-> IF c = 1 THEN configuration.electronVersion ELSE "unread"]
    /\ yielded = [c \in Calls |-> "none"]
    /\ packager \in Packagers
    /\ resources = IF IsMac(packager) THEN {en_lproj, de_lproj, readme_txt} ELSE {}
    /\ StageIdle

NextPrepare ==
    \/ \E c \in Calls : \E po \in PrepareOptionsOf(packager) :
          prepares < MaxPrepare /\ PrepareStart(c, po)
    \/ StatResolved
    \/ WorkerDone
    \/ EmptyDirDone
    \/ CopyDirDone
    \/ AcquisitionFailed
    \/ \E op \in {"unlinkDefaultApp", "unlinkVersion"} : UnlinkDone(op)
    \/ \E op \in {"unlinkDefaultApp", "unlinkVersion"} : UnlinkFailed(op)
    \/ LicenseRenameDone
    \/ CleanupDone
    \/ FFmpegDone

NextHook ==
    \/ HookStart
    \/ RenameSettled
    \/ MacAppCreated
    \/ HookFailed
    \/ ReaddirResolved
    \/ \E file \in ResourceEntries : MapCallback(file)
    \/ \E file \in ResourceEntries : RmDone(file)
    \/ \E file \in ResourceEntries : RmFailed(file)
    \/ MapResolved

NextStage == NextPrepare \/ NextHook

SpecStage == InitStage /\ [][NextStage]_vars


\* one macOS target, acquired by the external worker, with any resources
\* directory and any allow-list
InitPrune ==
    /\ configuration = [electronVersion |-> "1.0.0", electronBranding |-> EmptyObject,
                        electronDownload |-> EmptyObject, electronDist |-> "undefined",
                        downloadAlternateFFmpeg |-> FALSE]
    /\ isPrepackedAppAsar = FALSE
    /\ cpc = [c \in Calls |-> IF c = 1 THEN "done" ELSE "idle"]
    /\ cframework = [c \in Calls |-> IF c = 1 THEN NewFramework(configuration, configuration.electronVersion)
                                     ELSE NoFramework]
    /\ lookups = [c \in Calls |-> {}]
    /\ wrote = [c \in Calls |-> FALSE]
    /\ afterSuccess = [c \in Calls |-> FALSE]
    /\ seen = [c \in Calls |-> IF c = 1 THEN configuration.electronVersion ELSE "unread"]
    /\ yielded = [c \in Calls |-> "none"]
    /\ packager \in MacPackagers
    /\ resources \in SUBSET ResourceEntries
    /\ StageIdle

NextPrune ==
    \/ \E c \in Calls : \E po \in PrepareOptionsOf(packager) :
          prepares < MaxPrepare /\ PrepareStart(c, po)
    \/ WorkerDone
    \/ AcquisitionFailed
    \/ CleanupDone
    \/ HookStart
    \/ MacAppCreated
    \/ HookFailed
    \/ ReaddirResolved
    \/ \E file \in ResourceEntries : MapCallback(file)
    \/ \E file \in ResourceEntries : RmDone(file)
    \/ \E file \in ResourceEntries : RmFailed(file)
    \/ MapResolved

SpecPrune == InitPrune /\ [][NextPrune]_vars

\* the targets of one build on a Linux host: one configuration with
\* electronDist set and no version yet, with or without a download cache of
\* its own; calls are made one after another, and no marker removal fails
InitShared ==
    /\ configuration \in {cfg \in Configurations :
            /\ cfg.electronVersion = Null
            /\ "version" \notin DOMAIN cfg.electronDownload
            /\ cfg.electronBranding = EmptyObject
            /\ cfg.electronDist = "path"
            /\ ~cfg.downloadAlternateFFmpeg}
    /\ isPrepackedAppAsar = FALSE
    /\ cpc = [c \in Calls |-> "idle"]
    /\ cframework = [c \in Calls |-> NoFramework]
    /\ lookups = [c \in Calls |-> {}]
    /\ wrote = [c \in Calls |-> FALSE]
    /\ afterSuccess = [c \in Calls |-> FALSE]
    /\ seen = [c \in Calls |-> "unread"]
    /\ yielded = [c \in Calls |-> "none"]
    /\ packager = Packager("linux", FALSE, "MyApp", Undefined)
    /\ resources = {}
    /\ StageIdle

\* no preparation and no hook call is in progress
StageQuiet ==
    /\ upc \in {"idle", "done", "error"}
    /\ hpc \in {"idle", "done", "error"}
    /\ pending = {}

NextShared ==
    \/ \E c \in Calls : StageQuiet /\ CreateStartSequential(c) /\ UNCHANGED <<unpackVars, hookVars, files>>
    \/ \E c \in Calls : VersionStep(c) /\ UNCHANGED <<unpackVars, hookVars, files>>
    \/ \E c \in Calls : \E po \in PrepareOptionsOf(packager) :
          /\ prepares < MaxTargets
          /\ \A d \in Calls : ~InFlight(d)
          /\ PrepareStart(c, po)
    \/ StatResolved
    \/ WorkerDone
    \/ EmptyDirDone
    \/ CopyDirDone
    \/ AcquisitionFailed
    \/ \E op \in {"unlinkDefaultApp", "unlinkVersion"} : UnlinkDone(op)
    \/ LicenseRenameDone
    \/ CleanupDone
    \/ HookStart
    \/ RenameSettled

SpecShared == InitShared /\ [][NextShared]_vars

\* electronBranding: each field absent, null, empty or a name
BrandingValues == {Null, "", "brand", "Electron"}
BrandingOptions ==
    UNION {[keys -> BrandingValues] : keys \in SUBSET {"projectName", "productName"}}

\* createBrandingOpts on every electronBranding, through line 164 of
\* createElectronFrameworkSupport: the configuration carries its version
InitBranding ==
    /\ configuration \in
         {[electronVersion |-> "1.0.0", electronBranding |-> b, electronDownload |-> EmptyObject,
           electronDist |-> "undefined", downloadAlternateFFmpeg |-> FALSE] : b \in BrandingOptions}
    /\ isPrepackedAppAsar = FALSE
    /\ cpc = [c \in Calls |-> "idle"]
    /\ cframework = [c \in Calls |-> NoFramework]
    /\ lookups = [c \in Calls |-> {}]
    /\ wrote = [c \in Calls |-> FALSE]
    /\ afterSuccess = [c \in Calls |-> FALSE]
    /\ seen = [c \in Calls |-> "unread"]
    /\ yielded = [c \in Calls |-> "none"]
    /\ packager = Packager("linux", FALSE, "MyApp", Undefined)
    /\ resources = {}
    /\ StageIdle

NextBranding ==
    \E c \in Calls : CreateStart(c) /\ UNCHANGED <<unpackVars, hookVars, files>>

SpecBranding == InitBranding /\ [][NextBranding]_vars


----------------------------------------------------------------------------
(* Properties of unpack and cleanupAfterUnpack (SpecStage) *)

MarkerRemovalStarted ==
    Logged(Start("unlinkDefaultApp")) \/ Logged(Start("unlinkVersion"))

\* the local-copy strategy ran to its end: emptyDir, then copyDir
LocalCopyDone == Logged(Ok("emptyDir")) /\ Logged(Ok("copyDir"))

\* C1: the removal of the markers (default_app.asar of the resources
\* directory, the top-level version file) is started exactly when the
\* local-copy strategy (emptyDir + copyDir) was used; after a delegated or a
\* skipped acquisition no marker removal is ever started.
C1_MarkerRemovalIffLocalCopy ==
    /\ LocalCopyDone <=> MarkerRemovalStarted
    /\ LocalCopyDone => Logged(Start("unlinkDefaultApp")) /\ Logged(Start("unlinkVersion"))
    /\ Logged(Start("worker")) \/ Logged(Start("skip")) => ~MarkerRemovalStarted

\* a local copy that shipped the markers has been cleaned of them
C1_Witness ==
    /\ upc = "done"
    /\ LocalCopyDone
    /\ Logged(Ok("unlinkDefaultApp")) /\ Logged(Ok("unlinkVersion"))
    /\ VersionMarker \notin files
    /\ DefaultApp(packager, self.distMacOsAppName) \notin files

\* C2 as claimed: the rename of LICENSE to LICENSE.electron.txt is started
\* exactly when the local-copy strategy was used, and never after a
\* delegated acquisition.
C2_AsClaimed ==
    /\ Logged(Start("renameLicense")) => LocalCopyDone
    /\ Logged(Ok("worker")) => LICENSE_electron_txt \notin files

\* C2, amended: the rename of LICENSE to LICENSE.electron.txt is started
\* exactly when the platform is not macOS and the acquisition has completed,
\* by the external worker or by the local copy alike; it is not started on
\* macOS, nor after a skipped or a failed acquisition.
C2_LicenseRenameUnlessMac ==
    Logged(Start("renameLicense")) <=>
        /\ ~IsMac(packager)
        /\ Logged(Ok("worker")) \/ LocalCopyDone

\* after a delegated acquisition the LICENSE file has been renamed
C2_Witness ==
    /\ upc = "done"
    /\ Logged(Ok("worker"))
    /\ Logged(Ok("renameLicense"))
    /\ LICENSE_electron_txt \in files /\ LICENSE \notin files

\* statOrNull has found the expected zip in the resolved electronDist
ZipWasFound ==
    /\ Logged(Start("stat"))
    /\ upc # "stat"
    /\ ZipFile(options.version, prepareOptions.platformName, options.arch) \in distFiles

NoDirectoryCopy ==
    /\ ~Logged(Start("emptyDir"))
    /\ ~Logged(Start("copyDir"))

CacheIsElectronDist ==
    /\ "cache" \in DOMAIN options
    /\ options.cache = ResolvedDist(ResolveElectronDist(configuration, prepareOptions))

\* C3 as claimed: whenever electronDist resolves to a directory that holds
\* the expected zip, unpack invokes the external worker with options.cache
\* set to that directory, and never empties appOutDir nor copies.
C3_AsClaimed ==
    ZipWasFound => Logged(Start("worker")) /\ CacheIsElectronDist /\ NoDirectoryCopy

\* C3, amended: whenever electronDist resolves to a directory that holds the
\* expected zip, unpack sets options.cache to that directory and never
\* empties appOutDir nor copies; it invokes the external worker with these
\* options unless isSafeToUnpackElectronOnRemoteBuildServer answers true,
\* in which case the acquisition is skipped and no worker is invoked.
C3_CachedZipIsDelegated ==
    ZipWasFound =>
        /\ CacheIsElectronDist
        /\ NoDirectoryCopy
        /\ dist = NoPath
        /\ IF isSafeToUnpackElectronOnRemoteBuildServer(packager)
           THEN Logged(Start("skip")) /\ ~Logged(Start("worker"))
           ELSE Logged(Start("worker")) /\ ~Logged(Start("skip"))

\* the worker has unpacked from the electronDist directory used as cache
C3_Witness ==
    /\ ZipWasFound
    /\ Logged(Ok("worker"))
    /\ options.cache = projectDir \o DistPath
    /\ upc = "done"

----------------------------------------------------------------------------
(* Properties of createElectronFrameworkSupport *)

Started(c) == cpc[c] # "idle"

\* C4 (SpecVersion): a call that finds configuration.electronVersion set
\* returns a framework of exactly that version, invokes neither
\* getElectronVersionFromInstalled nor computeElectronVersion, and does not
\* assign configuration.electronVersion.
C4_SetVersionIsReturned ==
    \A c \in Calls :
        Started(c) /\ seen[c] # Null =>
            /\ cpc[c] = "done"
            /\ cframework[c].version = seen[c]
            /\ lookups[c] = {}
            /\ ~wrote[c]

C4_Witness ==
    \E c \in Calls :
        /\ cpc[c] = "done"
        /\ seen[c] \in Versions
        /\ cframework[c].version = seen[c]

\* C5 (SpecVersion): a call for a pre-packed archive that finds the version
\* unset and whose installed-metadata lookup yields no version ends in an
\* error, returns no framework, never invokes computeElectronVersion, and
\* does not assign configuration.electronVersion.
C5_PrepackedWithoutVersionFails ==
    \A c \in Calls :
        yielded[c] = Null =>
            /\ cpc[c] = "error"
            /\ cframework[c] = NoFramework
            /\ lookups[c] = {"installed"}
            /\ ~wrote[c]

C5_Witness ==
    \E c \in Calls :
        /\ isPrepackedAppAsar
        /\ seen[c] = Null
        /\ yielded[c] = Null
        /\ cpc[c] = "error"
        /\ configuration.electronVersion = Null

\* C6 (SpecVersionSequential): once a call has returned a framework, every
\* later call on the same configuration returns a framework of the same
\* version, invokes no lookup and does not assign
\* configuration.electronVersion.
C6_ResolutionIsIdempotent ==
    \A c \in Calls :
        afterSuccess[c] =>
            /\ cpc[c] = "done"
            /\ lookups[c] = {}
            /\ ~wrote[c]
            /\ \A d \in Calls : cpc[d] = "done" => cframework[d].version = cframework[c].version
            /\ configuration.electronVersion = cframework[c].version

\* a call after the call that computed the version and wrote it back
C6_Witness ==
    \E c, d \in Calls :
        /\ afterSuccess[c] /\ cpc[c] = "done"
        /\ wrote[d] /\ lookups[d] # {}
        /\ cframework[c].version = cframework[d].version

\* C7 as claimed (SpecVersion): when calls overlap on a configuration whose
\* electronVersion is unset, the version is computed (installed-metadata or
\* manifest lookup) at most once in total, and at most one call assigns
\* configuration.electronVersion.
C7_AsClaimed ==
    /\ Cardinality({c \in Calls : lookups[c] # {}}) <= 1
    /\ Cardinality({c \in Calls : wrote[c]}) <= 1

----------------------------------------------------------------------------
(* Properties of beforeCopyExtraFiles *)

\* the entries of `entries` that end in ".lproj" and whose name without
\* that suffix is not in the allow-list
Disallowed(entries, wanted) ==
    {f \in entries :
        \E k \in 0..Len(f) :
            /\ SubSeq(f, k + 1, Len(f)) = langFileExt
            /\ \A i \in 1..Len(wanted) : wanted[i] # SubSeq(f, 1, k)}

\* C8 (SpecPrune): with a non-empty allow-list, whatever the resources
\* directory holds and in whatever order the entries are handled under the
\* concurrency ceiling, only disallowed locale entries are ever removed, and
\* when no removal has failed and the map has resolved the removed entries
\* are exactly the disallowed ones; the others are still there.
C8_PruningRemovesExactlyDisallowed ==
    hlog.scanned =>
        /\ Cardinality(inFlight) <= CONCURRENCY
        /\ hlog.removing \subseteq Disallowed(hlog.entries, wantedLanguages)
        /\ hlog.entries \ Disallowed(hlog.entries, wantedLanguages) \subseteq resources
        /\ hpc = "done" =>
              /\ hlog.failed = {}
              /\ hlog.removed = Disallowed(hlog.entries, wantedLanguages)
              /\ resources = hlog.entries \ hlog.removed

\* more removals than the ceiling admits at once, all done: the allow-list
\* names no locale of the directory (it spells the entry, not the locale)
C8_Witness ==
    /\ hpc = "done"
    /\ hlog.scanned
    /\ hlog.entries = ResourceEntries
    /\ wantedLanguages = <<en_lproj>>
    /\ Cardinality(hlog.removed) > CONCURRENCY
    /\ hlog.removed = {en_lproj, fr_lproj, de_lproj}
    /\ resources = {readme_txt, enlproj}

\* C9 (SpecPrune): on macOS with an empty or absent allow-list the hook
\* does not scan the resources directory and removes none of its entries.
C9_EmptyAllowListKeepsAll ==
    IsMac(packager) /\ Len(asArray(packager.electronLanguages)) = 0 =>
        /\ ~hlog.scanned
        /\ hpc \notin {"readdir", "map"}
        /\ queue = {} /\ inFlight = {}
        /\ hlog.removing = {} /\ hlog.removed = {}

C9_Witness ==
    /\ IsMac(packager)
    /\ packager.electronLanguages = ArrayValue(<<>>)
    /\ hooks = 1 /\ hpc = "done"
    /\ resources = ResourceEntries
    /\ ~hlog.scanned

WindowsExe == RenameSource(packager, createBrandingOpts(configuration))
ProductExe == RenameTarget(packager)

\* C10 as claimed: on Windows the hook renames <projectName>.exe to
\* <productFilename>.exe; run a second time on the renamed directory, the
\* second rename fails and the hook still completes without an error.
C10_AsClaimed ==
    packager.platform = "windows" /\ Len(hlog.renames) = 2 /\ hlog.renames[1] = "ok" =>
        /\ ProductExe \in files
        /\ hlog.renames[2] = "failed"
        /\ hpc = "done"

\* C10, amended: on Windows the hook renames <projectName>.exe to
\* <productFilename>.exe; run a second time on the renamed directory, where
\* <projectName>.exe is no longer present (the two names differ), the second
\* rename fails and the hook ends in that error: the failure is not caught.
C10_SecondRenameRejects ==
    packager.platform = "windows" /\ Len(hlog.renames) >= 1 /\ hlog.renames[1] = "ok" =>
        /\ ProductExe \in files
        /\ WindowsExe # ProductExe => WindowsExe \notin files
        /\ hooks = 1 => hpc = "done"
        /\ WindowsExe # ProductExe =>
              /\ \A k \in 2..Len(hlog.renames) : hlog.renames[k] = "failed"
              /\ hooks >= 2 /\ Len(hlog.renames) = hooks => hpc = "error"

C10_Witness ==
    /\ packager.platform = "windows"
    /\ hlog.renames = <<"ok", "failed">>
    /\ hpc = "error"
    /\ ProductExe \in files /\ WindowsExe \notin files


----------------------------------------------------------------------------
(* Properties across the stage preparation and the hook (SpecStage) *)

\* the acquisition populated appOutDir on this machine
PopulatedLocally == Logged(Ok("worker")) \/ LocalCopyDone

\* the hook call has returned or rejected
HookSettled == hooks >= 1 /\ hpc \in {"done", "error"}

\* C11: on Linux, once the hook that follows a preparation has settled, it
\* has invoked the rename of the branded project executable to the
\* product's executable name exactly when the acquisition populated
\* appOutDir locally (worker unpack or local copy), and not when the
\* acquisition was skipped; a local copy is always followed by the rename.
C11_AsClaimed ==
    packager.platform = "linux" /\ HookSettled =>
        /\ Len(hlog.renames) >= 1 <=> PopulatedLocally
        /\ Logged(Start("skip")) => Len(hlog.renames) = 0
        /\ LocalCopyDone => Len(hlog.renames) >= 1

\* the step in which unpack reaches line 184 with the final `dist`: the call
\* started with no electronDist, or statOrNull has answered
AcquisitionDecided ==
    \/ prepares' # prepares /\ upc' # "stat"
    \/ upc = "stat" /\ upc' # "stat"

AcquisitionInvoked ==
    Logged(Start("worker")) \/ Logged(Start("emptyDir")) \/ Logged(Start("copyDir"))

\* C12: when unpack reaches its acquisition with no local distribution
\* directory in effect (electronDist unset, or cleared because it held the
\* cached zip) and isSafeToUnpackElectronOnRemoteBuildServer is true, unpack
\* returns without error in that step, having invoked neither the worker nor
\* emptyDir/copyDir nor any cleanup, and leaves appOutDir as it was; nothing
\* of unpack runs afterwards.
C12_SkipIsNoOp ==
    /\ [][AcquisitionDecided /\ dist' = NoPath /\ isSafeToUnpackElectronOnRemoteBuildServer(packager) =>
            /\ files' = files
            /\ upc' \in {"done", "ffmpeg"}
            /\ pending' = {}
            /\ Logged(Start("skip"))'
            /\ ~AcquisitionInvoked']_vars
    /\ [](Logged(Start("skip")) =>
            /\ ~AcquisitionInvoked
            /\ ~Logged(Start("cleanup"))
            /\ upc \in {"done", "ffmpeg"})

\* a skipped acquisition after electronDist was cleared for its cached zip
C12_Witness ==
    /\ Logged(Start("skip"))
    /\ ZipWasFound
    /\ configuration.electronDist = "path"
    /\ dist = NoPath
    /\ upc = "done"
    /\ files = {}

----------------------------------------------------------------------------
(* Properties of createBrandingOpts (SpecBranding) *)

\* the field is configured with a truthy value
Configured(field) ==
    /\ field \in DOMAIN configuration.electronBranding
    /\ configuration.electronBranding[field] \notin {Null, ""}

\* the branding the framework of call c was built from: its name is the
\* projectName, its distMacOsAppName is `${productName}.app` (lines 164-165)
BuiltFrom(c, branding) ==
    /\ cframework[c].name = branding.projectName
    /\ cframework[c].distMacOsAppName = AppName(branding.productName)

\* C13: createBrandingOpts returns both fields populated for every
\* configuration; each field takes its configured value when that is
\* present and truthy and else its own default ("electron", "Electron"),
\* whatever the other field is; an empty electronBranding yields
\* {projectName: "electron", productName: "Electron"}.
C13_BrandingDefaultsIndependently ==
    \A c \in Calls : cpc[c] = "done" =>
        /\ BuiltFrom(c, [projectName |-> IF Configured("projectName")
                                         THEN configuration.electronBranding.projectName
                                         ELSE "electron",
                         productName |-> IF Configured("productName")
                                         THEN configuration.electronBranding.productName
                                         ELSE "Electron"])
        /\ cframework[c].name \notin {Null, ""}
        /\ cframework[c].distMacOsAppName \notin {AppName(Null), AppName("")}
        /\ configuration.electronBranding = EmptyObject =>
               BuiltFrom(c, [projectName |-> "electron", productName |-> "Electron"])
        /\ \A other \in BrandingOptions :
               LET result == createBrandingOpts([electronBranding |-> other])
               IN /\ Get(other, "projectName") = Get(configuration.electronBranding, "projectName")
                        => result.projectName = cframework[c].name
                  /\ Get(other, "productName") = Get(configuration.electronBranding, "productName")
                        => AppName(result.productName) = cframework[c].distMacOsAppName

\* one field configured, the other empty: the configured one is kept, the
\* other takes its default
C13_Witness ==
    /\ configuration.electronBranding = [projectName |-> "", productName |-> "brand"]
    /\ \E c \in Calls : cpc[c] = "done" /\ BuiltFrom(c, [projectName |-> "electron", productName |-> "brand"])

----------------------------------------------------------------------------
(* Properties of the order of unpack's steps (SpecStage) *)

\* unpack has returned without an error
UnpackReturned == upc \in {"ffmpeg", "done"}

FinalizerInvoked == Logged(Start("cleanup"))

\* C14 as claimed: cleanupAfterUnpack is run after every acquisition that
\* does not fail, whichever outcome occurred (delegated, copied, skipped).
C14_AsClaimed ==
    UnpackReturned => FinalizerInvoked

\* C14, amended: cleanupAfterUnpack is invoked exactly when the worker or
\* the local copy has completed, right after it, and unpack returns only
\* once it has; after a skipped acquisition unpack returns without invoking
\* it, and after a failed one it is not invoked either.
C14_FinalizerAfterWorkerOrCopy ==
    /\ FinalizerInvoked <=> Logged(Ok("worker")) \/ Logged(Ok("copyDir"))
    /\ \A i \in 1..Len(log) :
          log[i] \in {Ok("worker"), Ok("copyDir")} => i < Len(log) /\ log[i + 1] = Start("cleanup")
    /\ UnpackReturned => (FinalizerInvoked <=> ~Logged(Start("skip")))
    /\ Logged(Start("skip")) => ~FinalizerInvoked /\ pending = {}
    /\ (\E op \in {"worker", "emptyDir", "copyDir"} : Logged(Fail(op))) => ~FinalizerInvoked

\* the worker has populated appOutDir, the finalizer has run, unpack has returned
C14_Witness ==
    /\ Logged(Ok("worker"))
    /\ FinalizerInvoked
    /\ pending = {}
    /\ UnpackReturned
    /\ ~ZipWasFound

CleanupActions == {"unlinkDefaultApp", "unlinkVersion", "renameLicense"}

\* e is logged, and before f
Precedes(e, f) == Logged(e) /\ Logged(f) /\ Index(e) < Index(f)

\* C15: in every run of unpack no finalization action (marker removal,
\* LICENSE rename) starts before the acquisition has completed: on the
\* delegated path the worker has returned; on the local-copy path emptyDir
\* has completed before copyDir starts, and copyDir has completed before any
\* cleanup action starts. While the acquisition is in progress no cleanup
\* action is.
C15_AcquisitionBeforeFinalization ==
    /\ \A op \in CleanupActions : Logged(Start(op)) =>
          /\ Precedes(Ok("worker"), Start(op)) \/ Precedes(Ok("copyDir"), Start(op))
          /\ Logged(Start("worker")) => Precedes(Ok("worker"), Start(op))
          /\ Logged(Start("emptyDir")) => Precedes(Ok("copyDir"), Start(op))
    /\ Logged(Start("copyDir")) =>
          /\ Precedes(Start("emptyDir"), Ok("emptyDir"))
          /\ Precedes(Ok("emptyDir"), Start("copyDir"))
    /\ Logged(Ok("copyDir")) => Precedes(Start("copyDir"), Ok("copyDir"))
    /\ upc \in {"stat", "worker", "emptyDir", "copyDir"} => pending = {} /\ ~FinalizerInvoked

\* after a local copy the three cleanup actions have settled in the reverse
\* of the order they were started in
C15_Witness ==
    /\ LocalCopyDone
    /\ Precedes(Ok("copyDir"), Start("unlinkDefaultApp"))
    /\ Precedes(Start("unlinkDefaultApp"), Start("unlinkVersion"))
    /\ Precedes(Start("unlinkVersion"), Start("renameLicense"))
    /\ Precedes(Ok("renameLicense"), Ok("unlinkVersion"))
    /\ Precedes(Ok("unlinkVersion"), Ok("unlinkDefaultApp"))

----------------------------------------------------------------------------
(* Properties of failures (SpecStage, SpecPrune) *)

AcquisitionSteps == {"worker", "emptyDir", "copyDir"}

\* the number of times the operation was invoked by the call
Invocations(op) == Cardinality({i \in 1..Len(log) : log[i] = Start(op)})

\* C16: if the external worker, emptyDir or copyDir fails, the preparation
\* call ends in an error and stays there; the failure is the last operation
\* of the call: the failed step is not invoked again (each step at most
\* once per call), no cleanup action is started and no alternate FFmpeg is
\* put in place.
C16_AcquisitionFailureAborts ==
    \A op \in AcquisitionSteps :
        /\ Invocations(op) <= 1
        /\ Logged(Fail(op)) =>
              /\ upc = "error"
              /\ log[Len(log)] = Fail(op)
              /\ ~FinalizerInvoked
              /\ \A cl \in CleanupActions : ~Logged(Start(cl))
              /\ pending = {}
              /\ ~Logged(Start("ffmpeg"))

\* copyDir failed after emptyDir had emptied appOutDir, with FFmpeg asked for
C16_Witness ==
    /\ Logged(Ok("emptyDir"))
    /\ Logged(Fail("copyDir"))
    /\ configuration.downloadAlternateFFmpeg
    /\ upc = "error"
    /\ files = {}

MarkerRemovalOps == {"unlinkDefaultApp", "unlinkVersion"}

\* the operation was started and is in progress or has settled
CarriedOut(op) == Logged(Start(op)) /\ (op \in pending \/ Logged(Ok(op)) \/ Logged(Fail(op)))

\* C17: on a platform other than macOS a failed LICENSE rename (LICENSE
\* absent) never makes cleanupAfterUnpack fail: unless a marker removal has
\* failed, the call goes on and returns; and after a local copy both marker
\* removals were started with the rename and are carried out whatever the
\* rename does. On macOS the LICENSE rename is never started.
C17_LicenseRenameFailureIgnored ==
    /\ IsMac(packager) => ~Logged(Start("renameLicense"))
    /\ Logged(Fail("renameLicense")) =>
          /\ ~IsMac(packager)
          /\ LICENSE \notin files
          /\ (\A op \in MarkerRemovalOps : ~Logged(Fail(op))) => upc \in {"cleanup", "ffmpeg", "done"}
          /\ isFullCleanup => \A op \in MarkerRemovalOps : CarriedOut(op)
          /\ isFullCleanup /\ UnpackReturned =>
                /\ \A op \in MarkerRemovalOps : Logged(Ok(op))
                /\ VersionMarker \notin files
                /\ DefaultApp(packager, self.distMacOsAppName) \notin files

\* the copied distribution had no LICENSE: the rename failed first, both
\* markers were removed after it and the preparation is done
C17_Witness ==
    /\ ~IsMac(packager)
    /\ LocalCopyDone
    /\ Precedes(Fail("renameLicense"), Ok("unlinkDefaultApp"))
    /\ Precedes(Fail("renameLicense"), Ok("unlinkVersion"))
    /\ upc = "done"

\* the pruning pass of the hook call is over: the call has returned or
\* rejected and no removal is in progress
PruningOver == hlog.scanned /\ hpc \in {"done", "error"} /\ inFlight = {}

\* C18 as claimed: the failure of one removal does not abort the removal of
\* the other disallowed locale entries: once the pass is over every other
\* disallowed entry has been removed, those not yet started at the failure
\* included, and the hook has not failed for it (only an unreadable
\* resources directory fails the pass).
C18_AsClaimed ==
    PruningOver /\ hlog.failed # {} =>
        /\ Disallowed(hlog.entries, wantedLanguages) \ hlog.failed \subseteq hlog.removed
        /\ hpc = "done"

----------------------------------------------------------------------------
(* Properties of the download options and the configuration (SpecStage) *)

\* unpack is using the download options: the zip file name of line 174 is
\* being looked up, or the options were serialized for the worker (line 188)
OptionsInUse == upc \in {"stat", "worker"}

\* C19 as claimed: wherever the acquisition uses the download options,
\* their version is not empty and is the version the framework resolved,
\* for every configuration, those whose electronDownload has a version
\* included.
C19_AsClaimed ==
    OptionsInUse =>
        /\ options.version \notin {Null, ""}
        /\ options.version = self.version

\* the cache of the download options is the directory electronDist resolved to
CacheRedirected ==
    "cache" \in DOMAIN options /\ options.cache = ResolvedDist(DistPath)

\* C20: across the calls of createElectronFrameworkSupport,
\* prepareApplicationStageDirectory and beforeCopyExtraFiles on one
\* configuration, no field of the configuration but electronVersion is ever
\* written, and that one only by createElectronFrameworkSupport (line 161);
\* the redirect of the cache to the electronDist directory that holds the
\* zip is made on the options of the call, never on
\* configuration.electronDownload, and a preparation that starts afterwards
\* gets the cache of the configuration, not the redirect.
C20_OnlyElectronVersionWritten ==
    /\ [][/\ \A k \in DOMAIN configuration \ {"electronVersion"} : configuration'[k] = configuration[k]
          /\ configuration' # configuration => \E c \in Calls : wrote'[c] /\ ~wrote[c]
          /\ prepares' # prepares =>
                /\ ("cache" \in DOMAIN options') = ("cache" \in DOMAIN configuration.electronDownload)
                /\ "cache" \in DOMAIN options' => options'.cache = configuration.electronDownload.cache
                /\ ~CacheRedirected']_vars
    /\ []("cache" \in DOMAIN configuration.electronDownload =>
                configuration.electronDownload.cache # ResolvedDist(DistPath))

\* the second preparation on a configuration whose version was written by
\* createElectronFrameworkSupport: the cache is redirected in its options
\* and the configuration has no cache
C20_Witness ==
    /\ prepares = 2
    /\ \E c \in Calls : wrote[c]
    /\ configuration.electronVersion # Null
    /\ ZipWasFound
    /\ CacheRedirected
    /\ configuration.electronDownload = EmptyObject
    /\ Logged(Ok("worker"))

============================================================================
